---------------------------- MODULE Spec2Model ----------------------------
(***************************************************************************)
(* A model of the Group_Chat relay server (src/server.py, class            *)
(* ChatServer) and of the chat client's connection state machine           *)
(* (src/client.py, class ChatClient).                                      *)
(*                                                                         *)
(* Text is modelled as sequences of one-character strings, so that         *)
(* str.strip, str.startswith and slicing are computed as the code          *)
(* computes them.  Sockets are numbers: 0 is the listening socket and      *)
(* 1..MaxConns are the client connections, each used for one connection.   *)
(*                                                                         *)
(* Spec is the server with its environment (clients that connect, send     *)
(* chunks, close or lose their connection); SpecHistory is the same and    *)
(* keeps the history of what was read and enqueued; FairSpec is Spec with  *)
(* a server thread that keeps running.  ClientSpec is the client with its  *)
(* environment (a server that can be reached or not, the user who sends    *)
(* and closes the window); ClientFairSpec is ClientSpec with a networking  *)
(* thread that keeps running.  LoopsSpec has the behaviours of Spec and    *)
(* those of ClientSpec.  RoundTripSpec is one chat on its way through the  *)
(* server to a client, for a range of names and texts.                     *)
(***************************************************************************)
EXTENDS Integers, Sequences, FiniteSets, TLC

\* ------------------------------------------------------------- bounds
\* Number of client connections the environment opens.
MaxConns == 2
\* Number of steps the clients take in total (connect, send a chunk,
\* close, lose the connection).
MaxEvents == 6
\* The same, where the history of reads and broadcasts is kept.
MaxHistoryEvents == 5

\* Number of connection attempts the client makes.
MaxAttempts == 8

Conns == 1..MaxConns
\* The listening socket (self.server_socket).
Listener == 0

\* ------------------------------------------------ protocol constants
MSG_PREFIX == <<"M", "S", "G", ":">>
NAME_PREFIX == <<"N", "A", "M", "E", ":">>
FROM_PREFIX == <<"F", "R", "O", "M", ":">>
SYS_PREFIX == <<"S", "Y", "S", ":">>

\* The client's reconnection delays, in seconds.
RECONNECT_BASE_DELAY == 1
RECONNECT_MAX_DELAY == 16

\* ------------------------------------------------------ text helpers
\* str.strip(): the whitespace of the model's alphabet is the blank.
RECURSIVE LStrip(_)
LStrip(s) == IF s # <<>> /\ Head(s) = " " THEN LStrip(Tail(s)) ELSE s

RECURSIVE RStrip(_)
RStrip(s) ==
    IF s # <<>> /\ s[Len(s)] = " " THEN RStrip(SubSeq(s, 1, Len(s) - 1)) ELSE s

Strip(s) == RStrip(LStrip(s))

\* str.startswith(p)
StartsWith(s, p) == Len(s) >= Len(p) /\ SubSeq(s, 1, Len(p)) = p

\* The slice s[n:]
Drop(s, n) == SubSeq(s, n + 1, Len(s))

\* str(client_socket.getpeername()): a text that differs per connection.
Digits == <<"1", "2", "3", "4", "5">>
PeerName(c) == <<"(", Digits[c], ")">>

\* The chunks one recv of the server can return (what the clients send).
Chunks ==
    { NAME_PREFIX \o <<"a", "l">>,
      NAME_PREFIX \o <<" ">>,
      MSG_PREFIX \o <<"h", "i">>,
      <<" ">> \o MSG_PREFIX \o <<" ", "y", "o">>,
      <<"h", "i">> }

\* ---------------------------------------------------- dict and list
\* A variant of dict.pop that leaves the entry in place.
DictPop_Keeps(d, k) == d

\* dict.pop(k, None)
DictPop(d, k) == [x \in DOMAIN d \ {k} |-> d[x]]

\* d[k] = v
DictSet(d, k, v) == [x \in DOMAIN d \cup {k} |-> IF x = k THEN v ELSE d[x]]

EmptyDict == [x \in {} |-> <<>>]

InList(l, x) == \E i \in 1..Len(l) : l[i] = x

\* if x in l: l.remove(x)   (the first occurrence)
RECURSIVE ListRemove(_, _)
ListRemove(l, x) ==
    IF l = <<>> THEN <<>>
    ELSE IF Head(l) = x THEN Tail(l)
    ELSE <<Head(l)>> \o ListRemove(Tail(l), x)

\* ---------------------------------------------------------- state
VARIABLES
    \* ChatServer fields
    input_sockets, output_sockets, exceptional_sockets,
    message_queues, client_names, stop_event,
    \* _run_server: position and the three lists select returned
    pc, readable, writable, exceptional,
    \* the server's environment: state of each socket, the chunk in flight
    \* to the server on each connection, steps the clients may still take
    sock, listener, inbox, budget,
    \* the last write attempted: <<socket, bytes>>
    wire,
    \* history, kept when the flag is set: the chunks the server read from
    \* each connection and the <<origin, bytes>> enqueued for each record
    history, recvd, enqueued,
    \* ChatClient: client_socket ("None", or the state of the socket object
    \* it refers to) and stop_event
    client_socket, client_stop_event,
    \* _network_loop: position, the local reconnect_delay, the seconds the
    \* reconnection sleep was called with (0 when not in it)
    cpc, reconnect_delay, sleep_seconds,
    \* connection attempts made, and the notices given to the display about
    \* connecting, in order
    attempts, notices,
    \* _sleep_interruptible: "none" (not in it), "check" (at the loop
    \* condition, end_time not reached), "slice" (in time.sleep), "over"
    \* (at the loop condition, end_time reached)
    nap,
    \* what became of the user name sent on the connection held: "none"
    \* (not sent yet, or no connection), "sent" or "failed"
    handshake,
    \* the display thread: "idle", or in send_message waiting in send
    \* ("sending"; "failing" once the socket under it was closed), and the
    \* bytes it is sending
    ui, message_bytes,
    \* the last step of the client: the events it handed to the display
    \* and the bytes it wrote to the connection
    display, outbox

svars == <<input_sockets, output_sockets, exceptional_sockets,
           message_queues, client_names, stop_event,
           pc, readable, writable, exceptional,
           sock, listener, inbox, budget,
           wire, history, recvd, enqueued>>

cvars == <<client_socket, client_stop_event, cpc, reconnect_delay,
           sleep_seconds, attempts, notices, nap, handshake,
           ui, message_bytes, display, outbox>>

vars == <<svars, cvars>>

\* The loop's own variables, and the rest.
loopvars == <<pc, readable, writable, exceptional>>
envvars == <<sock, listener, inbox, budget>>
histvars == <<wire, history, recvd, enqueued>>

\* ------------------------------------------------- the environment
\* What the sockets do is the operating system's part.  A connection is
\*   "unborn"  not opened yet
\*   "syn"     established, waiting in the listen backlog
\*   "open"    accepted and connected
\*   "eof"     the peer closed: recv returns b"" once the data is read,
\*             send still succeeds
\*   "reset"   failed (reset by peer), the error not yet reported: the
\*             next recv or send raises it
\*   "dead"    failed, the error reported: recv returns b"", send raises
\*             (broken pipe)
\*   "broken"  failed as "reset", on a platform that still tells the
\*             peer's address of a failed connection
\*   "closed"  closed by the server: every call on it raises EBADF
\* getpeername raises ENOTCONN on a "reset" and on a "dead" connection.
SockStates ==
    {"unborn", "syn", "open", "eof", "reset", "dead", "broken", "closed"}

\* A variant in which getpeername() still answers on a socket the server
\* closed.
GetpeernameRaises_NotWhenClosed(s) == sock[s] \in {"reset", "dead"}

\* client_socket.getpeername() raises
GetpeernameRaises(s) == sock[s] \in {"closed", "reset", "dead"}

\* client_socket.send(...) raises
SendRaises(s) == sock[s] \in {"closed", "reset", "dead", "broken"}

\* What client_socket.recv(RECEIVE_BUFFER_SIZE) does: "data" (the chunk
\* in flight), "empty" (b""), or "error" (it raises).
RecvResult(s) ==
    CASE sock[s] \in {"open", "eof"} /\ inbox[s] # <<>> -> "data"
      [] sock[s] = "eof" /\ inbox[s] = <<>> -> "empty"
      [] sock[s] = "dead" -> "empty"
      [] OTHER -> "error"

\* A recv or send that raises reports the pending error of the connection.
ErrorReported(s) ==
    [sock EXCEPT ![s] = IF sock[s] = "reset" THEN "dead" ELSE sock[s]]

\* select: a socket of the read list is reported when accept or recv
\* would not block.
IsReadable(s) ==
    IF s = Listener THEN \E c \in Conns : sock[c] = "syn"
    ELSE inbox[s] # <<>> \/ sock[s] \in {"eof", "reset", "dead", "broken"}

\* select raises ValueError for a closed socket (fileno() is -1).
IsClosed(s) == IF s = Listener THEN listener = "closed" ELSE sock[s] = "closed"

\* The server observes its clients in select, recv, send and getpeername
\* only.  A client's step that changes none of their results before the
\* next select (a connect, a chunk sent, a close) is taken while the server
\* is at select; the loss of a connection is taken there or right before
\* the server's next step on that very socket.  Every other interleaving
\* differs from one of these by the order of two independent steps.
NextSocket ==
    IF readable # <<>> THEN Head(readable)
    ELSE IF writable # <<>> THEN Head(writable)
    ELSE IF exceptional # <<>> THEN Head(exceptional)
    ELSE Listener

\* A client connects: connection numbers are given in connect order.
Connect(c) ==
    /\ pc \in {"select", "waiting"} /\ ~stop_event
    /\ budget > 0
    /\ sock[c] = "unborn"
    /\ listener = "open"
    /\ \A d \in Conns : d < c => sock[d] # "unborn"
    /\ sock' = [sock EXCEPT ![c] = "syn"]
    /\ budget' = budget - 1
    /\ UNCHANGED <<input_sockets, output_sockets, exceptional_sockets,
                   message_queues, client_names, stop_event, loopvars,
                   listener, inbox, histvars>>
    /\ UNCHANGED cvars

\* A client writes one chunk; the next is written once this one was read.
ClientSend(c, chunk) ==
    /\ pc = "select" /\ ~stop_event
    /\ budget > 0
    /\ sock[c] = "open"
    /\ inbox[c] = <<>>
    /\ inbox' = [inbox EXCEPT ![c] = chunk]
    /\ budget' = budget - 1
    /\ UNCHANGED <<input_sockets, output_sockets, exceptional_sockets,
                   message_queues, client_names, stop_event, loopvars,
                   sock, listener, histvars>>
    /\ UNCHANGED cvars

\* A client closes its connection.
ClientClose(c) ==
    /\ pc = "select" /\ ~stop_event
    /\ budget > 0
    /\ sock[c] = "open"
    /\ sock' = [sock EXCEPT ![c] = "eof"]
    /\ budget' = budget - 1
    /\ UNCHANGED <<input_sockets, output_sockets, exceptional_sockets,
                   message_queues, client_names, stop_event, loopvars,
                   listener, inbox, histvars>>
    /\ UNCHANGED cvars

\* A connection fails (also one the client closed, when the server writes
\* to it); what was in flight is lost.
ConnReset(c, how) ==
    /\ pc = "select" \/ (pc = "run" /\ NextSocket = c)
    /\ ~stop_event
    /\ budget > 0
    /\ how \in {"reset", "broken"}
    /\ sock[c] \in {"open", "eof"}
    /\ sock' = [sock EXCEPT ![c] = how]
    /\ inbox' = [inbox EXCEPT ![c] = <<>>]
    /\ budget' = budget - 1
    /\ UNCHANGED <<input_sockets, output_sockets, exceptional_sockets,
                   message_queues, client_names, stop_event, loopvars,
                   listener, histvars>>
    /\ UNCHANGED cvars

\* ----------------------------------------------------- the server
\* f"{SYS_PREFIX}{username} joined"
JoinMessage(username) ==
    SYS_PREFIX \o username \o <<" ", "j", "o", "i", "n", "e", "d">>

\* f"{SYS_PREFIX}{username} left"
LeaveMessage(username) == SYS_PREFIX \o username \o <<" ", "l", "e", "f", "t">>

\* username of _handle_name_registration
Username(s, message_text) ==
    LET username == Strip(Drop(message_text, Len(NAME_PREFIX)))
    IN  IF username = <<>> THEN PeerName(s) ELSE username

\* A variant of relay_message that keeps the blanks around the content.
RelayMessage_Unstripped(username, message_text) ==
    FROM_PREFIX \o username \o <<":">> \o Drop(message_text, Len(MSG_PREFIX))

\* relay_message of _handle_chat_message
RelayMessage(username, message_text) ==
    FROM_PREFIX \o username \o <<":">>
        \o Strip(Drop(message_text, Len(MSG_PREFIX)))

\* A variant of _broadcast_message that skips the records without a name.
BroadcastMessage_NamedOnly(queues, message) ==
    [r \in DOMAIN queues |-> IF r \in DOMAIN client_names
                             THEN Append(queues[r], message)
                             ELSE queues[r]]

\* _broadcast_message, on the queues
BroadcastMessage(queues, message) ==
    [r \in DOMAIN queues |-> Append(queues[r], message)]

\* History of _broadcast_message: what was enqueued for whom, and on whose
\* behalf.
LogBroadcast(queues, src, message) ==
    [r \in Conns |-> IF history /\ r \in DOMAIN queues
                     THEN Append(enqueued[r], <<src, message>>)
                     ELSE enqueued[r]]

\* The rest of the iteration is skipped: an exception reached the handler
\* of _run_server.
AbortIteration ==
    /\ readable' = <<>>
    /\ writable' = <<>>
    /\ exceptional' = <<>>

InitServer ==
    /\ input_sockets = <<Listener>>
    /\ output_sockets = <<>>
    /\ exceptional_sockets = <<>>
    /\ message_queues = EmptyDict
    /\ client_names = EmptyDict
    /\ stop_event = FALSE
    /\ pc = "run"
    /\ readable = <<>>
    /\ writable = <<>>
    /\ exceptional = <<>>
    /\ sock = [c \in Conns |-> "unborn"]
    /\ listener = "open"
    /\ inbox = [c \in Conns |-> <<>>]
    /\ wire = <<>>
    /\ recvd = [c \in Conns |-> <<>>]
    /\ enqueued = [c \in Conns |-> <<>>]

\* ChatClient.__init__ (_initialize_networking) and the first line of
\* _network_loop.
InitClient ==
    /\ client_socket = "None"
    /\ client_stop_event = FALSE
    /\ cpc = "loop"
    /\ reconnect_delay = RECONNECT_BASE_DELAY
    /\ sleep_seconds = 0
    /\ attempts = 0
    /\ notices = <<>>
    /\ nap = "none"
    /\ handshake = "none"
    /\ ui = "idle"
    /\ message_bytes = <<>>
    /\ display = <<>>
    /\ outbox = <<>>

Init == InitServer /\ InitClient /\ history = FALSE /\ budget = MaxEvents

InitHistory ==
    InitServer /\ InitClient /\ history = TRUE /\ budget = MaxHistoryEvents

\* A variant of the loop that a failed or closed socket on its read list
\* ends.
LoopTop_EndsOnFailedSocket ==
    /\ pc = "run"
    /\ readable = <<>> /\ writable = <<>> /\ exceptional = <<>>
    /\ pc' = IF stop_event
                 \/ \E i \in 1..Len(input_sockets) :
                      /\ input_sockets[i] # Listener
                      /\ sock[input_sockets[i]] \in {"dead", "closed"}
              THEN "exited" ELSE "select"
    /\ UNCHANGED <<input_sockets, output_sockets, exceptional_sockets,
                   message_queues, client_names, stop_event,
                   readable, writable, exceptional, envvars, histvars>>
    /\ UNCHANGED cvars

\* while not self.stop_event.is_set()
LoopTop ==
    /\ pc = "run"
    /\ readable = <<>> /\ writable = <<>> /\ exceptional = <<>>
    /\ pc' = IF stop_event THEN "exited" ELSE "select"
    /\ UNCHANGED <<input_sockets, output_sockets, exceptional_sockets,
                   message_queues, client_names, stop_event,
                   readable, writable, exceptional, envvars, histvars>>
    /\ UNCHANGED cvars

\* select.select(input_sockets, output_sockets, exceptional_sockets) has
\* no timeout: it returns when a socket of the read list is ready or the
\* write list is not empty (a connected socket is always ready for
\* writing).
SelectReady ==
    \/ \E i \in 1..Len(input_sockets) : IsReadable(input_sockets[i])
    \/ output_sockets # <<>>

\* What select returns.  An exceptional condition (urgent data) is the
\* peer's doing: any of the sockets of the third list may be reported.
SelectReturns ==
    /\ readable' = SelectSeq(input_sockets, IsReadable)
    /\ writable' = output_sockets
    /\ \E E \in SUBSET {exceptional_sockets[i] :
                            i \in 1..Len(exceptional_sockets)} :
         exceptional' = SelectSeq(exceptional_sockets, LAMBDA s : s \in E)
    /\ pc' = "run"

\* The call of select: it raises ValueError when a list holds a closed
\* socket, returns at once when something is ready, and waits otherwise.
Select ==
    /\ pc = "select"
    /\ IF \/ \E i \in 1..Len(input_sockets) : IsClosed(input_sockets[i])
          \/ \E i \in 1..Len(output_sockets) : IsClosed(output_sockets[i])
          \/ \E i \in 1..Len(exceptional_sockets) :
                IsClosed(exceptional_sockets[i])
       THEN /\ pc' = "run"
            /\ UNCHANGED <<readable, writable, exceptional>>
       ELSE IF SelectReady
            THEN SelectReturns
            ELSE /\ pc' = "waiting"
                 /\ UNCHANGED <<readable, writable, exceptional>>
    /\ UNCHANGED <<input_sockets, output_sockets, exceptional_sockets,
                   message_queues, client_names, stop_event,
                   envvars, histvars>>
    /\ UNCHANGED cvars

\* The wait in select ends: something became ready.  A socket closed
\* during the wait does not end it.
SelectWakes ==
    /\ pc = "waiting"
    /\ SelectReady
    /\ SelectReturns
    /\ UNCHANGED <<input_sockets, output_sockets, exceptional_sockets,
                   message_queues, client_names, stop_event,
                   envvars, histvars>>
    /\ UNCHANGED cvars

\* _accept_new_client: the oldest connection of the backlog is accepted;
\* when accept raises (no descriptor left, the listening socket closed by
\* stop_server) the error is logged and nothing changes.
AcceptNewClient ==
    /\ pc = "run"
    /\ readable # <<>> /\ Head(readable) = Listener
    /\ readable' = Tail(readable)
    /\ \/ /\ listener = "open"
          /\ \E c \in Conns :
               /\ sock[c] = "syn"
               /\ \A d \in Conns : sock[d] = "syn" => c <= d
               /\ input_sockets' = Append(input_sockets, c)
               /\ output_sockets' = Append(output_sockets, c)
               /\ message_queues' = DictSet(message_queues, c, <<>>)
               /\ sock' = [sock EXCEPT ![c] = "open"]
       \/ UNCHANGED <<input_sockets, output_sockets, message_queues, sock>>
    /\ UNCHANGED <<exceptional_sockets, client_names, stop_event, pc,
                   writable, exceptional, listener, inbox, budget, histvars>>
    /\ UNCHANGED cvars

\* _handle_client_disconnection with _cleanup_client_socket: the name is
\* popped, then getpeername() is called for the log line; when it raises,
\* nothing else is done.  Otherwise the socket leaves the read and write
\* lists, is closed, its queue is dropped, and a leave notice is broadcast
\* when it had a name.
HandleClientDisconnection(s) ==
    LET username == IF s \in DOMAIN client_names THEN client_names[s] ELSE <<>>
        queues == DictPop(message_queues, s)
    IN  /\ client_names' = DictPop(client_names, s)
        /\ IF GetpeernameRaises(s)
           THEN UNCHANGED <<input_sockets, output_sockets, message_queues,
                            enqueued>>
           ELSE /\ input_sockets' = ListRemove(input_sockets, s)
                /\ output_sockets' = ListRemove(output_sockets, s)
                /\ sock' = [sock EXCEPT ![s] = "closed"]
                /\ IF username # <<>>
                   THEN /\ message_queues' =
                              BroadcastMessage(queues, LeaveMessage(username))
                        /\ enqueued' =
                              LogBroadcast(queues, s, LeaveMessage(username))
                   ELSE /\ message_queues' = queues
                        /\ UNCHANGED enqueued

\* A variant of _process_client_message that registers a name whenever a
\* name announcement arrives.
ProcessClientMessage_Rename(s, message_text) ==
    IF StartsWith(message_text, NAME_PREFIX)
    THEN LET username == Username(s, message_text)
         IN  /\ client_names' = DictSet(client_names, s, username)
             /\ message_queues' =
                   BroadcastMessage(message_queues, JoinMessage(username))
             /\ enqueued' =
                   LogBroadcast(message_queues, s, JoinMessage(username))
    ELSE IF s \in DOMAIN client_names /\ StartsWith(message_text, MSG_PREFIX)
         THEN LET relay_message == RelayMessage(client_names[s], message_text)
              IN  /\ message_queues' =
                        BroadcastMessage(message_queues, relay_message)
                  /\ enqueued' = LogBroadcast(message_queues, s, relay_message)
                  /\ UNCHANGED client_names
         ELSE UNCHANGED <<client_names, message_queues, enqueued>>

\* A variant of _process_client_message that relays whatever a connection
\* with a name sends.
ProcessClientMessage_RelaysAny(s, message_text) ==
    IF s \notin DOMAIN client_names
    THEN IF StartsWith(message_text, NAME_PREFIX)
         THEN LET username == Username(s, message_text)
              IN  /\ client_names' = DictSet(client_names, s, username)
                  /\ message_queues' =
                        BroadcastMessage(message_queues, JoinMessage(username))
                  /\ enqueued' =
                        LogBroadcast(message_queues, s, JoinMessage(username))
         ELSE UNCHANGED <<client_names, message_queues, enqueued>>
    ELSE LET relay_message == FROM_PREFIX \o client_names[s] \o <<":">>
                                  \o message_text
         IN  /\ message_queues' =
                   BroadcastMessage(message_queues, relay_message)
             /\ enqueued' = LogBroadcast(message_queues, s, relay_message)
             /\ UNCHANGED client_names

\* A variant of _process_client_message that does not send the join notice
\* to the client that joins.
ProcessClientMessage_JoinToOthers(s, message_text) ==
    IF s \notin DOMAIN client_names
    THEN IF StartsWith(message_text, NAME_PREFIX)
         THEN LET username == Username(s, message_text)
                  others == DictPop(message_queues, s)
                  queues == [r \in DOMAIN message_queues |->
                               IF r = s THEN message_queues[r]
                               ELSE Append(message_queues[r],
                                           JoinMessage(username))]
              IN  /\ client_names' = DictSet(client_names, s, username)
                  /\ message_queues' = queues
                  /\ enqueued' = LogBroadcast(others, s, JoinMessage(username))
         ELSE UNCHANGED <<client_names, message_queues, enqueued>>
    ELSE IF StartsWith(message_text, MSG_PREFIX)
         THEN LET relay_message == RelayMessage(client_names[s], message_text)
              IN  /\ message_queues' =
                        BroadcastMessage(message_queues, relay_message)
                  /\ enqueued' = LogBroadcast(message_queues, s, relay_message)
                  /\ UNCHANGED client_names
         ELSE UNCHANGED <<client_names, message_queues, enqueued>>

\* A variant of _process_client_message without the registration check: a
\* chat message from a connection without a name is relayed under the
\* peer's address.
ProcessClientMessage_NoCheck(s, message_text) ==
    IF StartsWith(message_text, NAME_PREFIX) /\ s \notin DOMAIN client_names
    THEN LET username == Username(s, message_text)
         IN  /\ client_names' = DictSet(client_names, s, username)
             /\ message_queues' =
                   BroadcastMessage(message_queues, JoinMessage(username))
             /\ enqueued' =
                   LogBroadcast(message_queues, s, JoinMessage(username))
    ELSE IF StartsWith(message_text, MSG_PREFIX)
         THEN LET username == IF s \in DOMAIN client_names
                              THEN client_names[s] ELSE PeerName(s)
                  relay_message == RelayMessage(username, message_text)
              IN  /\ message_queues' =
                        BroadcastMessage(message_queues, relay_message)
                  /\ enqueued' = LogBroadcast(message_queues, s, relay_message)
                  /\ UNCHANGED client_names
         ELSE UNCHANGED <<client_names, message_queues, enqueued>>

\* _process_client_message with _handle_name_registration and
\* _handle_chat_message, for the stripped text of a chunk.
ProcessClientMessage(s, message_text) ==
    IF s \notin DOMAIN client_names
    THEN IF StartsWith(message_text, NAME_PREFIX)
         THEN LET username == Username(s, message_text)
              IN  /\ client_names' = DictSet(client_names, s, username)
                  /\ message_queues' =
                        BroadcastMessage(message_queues, JoinMessage(username))
                  /\ enqueued' =
                        LogBroadcast(message_queues, s, JoinMessage(username))
         ELSE UNCHANGED <<client_names, message_queues, enqueued>>
    ELSE IF StartsWith(message_text, MSG_PREFIX)
         THEN LET relay_message == RelayMessage(client_names[s], message_text)
              IN  /\ message_queues' =
                        BroadcastMessage(message_queues, relay_message)
                  /\ enqueued' = LogBroadcast(message_queues, s, relay_message)
                  /\ UNCHANGED client_names
         ELSE UNCHANGED <<client_names, message_queues, enqueued>>

\* _handle_client_data for the next socket select reported readable.  A
\* disconnection handling that raises (a second time, when the first call
\* was made from the try block) ends the iteration.
HandleClientData ==
    /\ pc = "run"
    /\ readable # <<>> /\ Head(readable) # Listener
    /\ LET s == Head(readable)
       IN  IF RecvResult(s) = "data"
           THEN /\ ProcessClientMessage(s, Strip(inbox[s]))
                /\ inbox' = [inbox EXCEPT ![s] = <<>>]
                /\ recvd' = IF history
                            THEN [recvd EXCEPT ![s] = Append(@, inbox[s])]
                            ELSE recvd
                /\ readable' = Tail(readable)
                /\ UNCHANGED <<input_sockets, output_sockets, sock,
                               writable, exceptional>>
           ELSE /\ HandleClientDisconnection(s)
                /\ IF GetpeernameRaises(s)
                   THEN /\ AbortIteration
                        /\ sock' = ErrorReported(s)
                   ELSE /\ readable' = Tail(readable)
                        /\ UNCHANGED <<writable, exceptional>>
                /\ UNCHANGED <<inbox, recvd>>
    /\ UNCHANGED <<exceptional_sockets, stop_event, pc, listener, budget,
                   wire, history>>
    /\ UNCHANGED cvars

\* A variant of the dequeue: list.pop(), which takes the newest entry.
QueuePop_Newest(queue) ==
    [message_bytes |-> queue[Len(queue)],
     rest |-> SubSeq(queue, 1, Len(queue) - 1)]

\* self.message_queues[client_socket].pop(0): the entry taken and the queue
\* that is left.
QueuePop(queue) == [message_bytes |-> Head(queue), rest |-> Tail(queue)]

\* _handle_writable_sockets for the next socket select reported writable:
\* the oldest queued message is popped and sent; when send raises the
\* socket is appended to exceptional_sockets.
HandleWritable ==
    /\ pc = "run"
    /\ readable = <<>> /\ writable # <<>>
    /\ LET s == Head(writable)
       IN  IF s \in DOMAIN message_queues /\ message_queues[s] # <<>>
           THEN /\ message_queues' =
                      [message_queues EXCEPT
                          ![s] = QueuePop(message_queues[s]).rest]
                /\ wire' = <<s, QueuePop(message_queues[s]).message_bytes>>
                /\ exceptional_sockets' =
                      IF SendRaises(s) THEN Append(exceptional_sockets, s)
                      ELSE exceptional_sockets
                /\ sock' = IF SendRaises(s) THEN ErrorReported(s) ELSE sock
           ELSE UNCHANGED <<message_queues, wire, exceptional_sockets, sock>>
    /\ writable' = Tail(writable)
    /\ UNCHANGED <<input_sockets, output_sockets, client_names, stop_event,
                   pc, readable, exceptional, listener, inbox, budget,
                   history, recvd, enqueued>>
    /\ UNCHANGED cvars

\* _handle_exceptional_sockets for the next socket select reported.
HandleExceptional ==
    /\ pc = "run"
    /\ readable = <<>> /\ writable = <<>> /\ exceptional # <<>>
    /\ LET s == Head(exceptional)
       IN  /\ HandleClientDisconnection(s)
           /\ IF GetpeernameRaises(s)
              THEN /\ AbortIteration
                   /\ UNCHANGED <<exceptional_sockets, sock>>
              ELSE /\ exceptional' = Tail(exceptional)
                   /\ exceptional_sockets' = ListRemove(exceptional_sockets, s)
                   /\ UNCHANGED <<readable, writable>>
    /\ UNCHANGED <<stop_event, pc, listener, inbox, budget, wire, history,
                   recvd>>
    /\ UNCHANGED cvars

\* stop_server, called from the display thread.  The loop reads stop_event
\* at its top and the listening socket in select and accept: the call is
\* taken right before one of these, or during the wait in select.
StopServer ==
    /\ ~stop_event
    /\ pc \in {"select", "waiting"} \/ (pc = "run" /\ NextSocket = Listener)
    /\ stop_event' = TRUE
    /\ listener' = "closed"
    /\ UNCHANGED <<input_sockets, output_sockets, exceptional_sockets,
                   message_queues, client_names, loopvars,
                   sock, inbox, budget, histvars>>
    /\ UNCHANGED cvars

Environment ==
    \/ \E c \in Conns : Connect(c)
    \/ \E c \in Conns, chunk \in Chunks : ClientSend(c, chunk)
    \/ \E c \in Conns : ClientClose(c)
    \/ \E c \in Conns, how \in {"reset", "broken"} : ConnReset(c, how)

Next ==
    \/ LoopTop
    \/ Select
    \/ SelectWakes
    \/ AcceptNewClient
    \/ HandleClientData
    \/ HandleWritable
    \/ HandleExceptional
    \/ StopServer
    \/ Environment

\* The steps of the server's thread.
ServerStep ==
    \/ LoopTop
    \/ Select
    \/ SelectWakes
    \/ AcceptNewClient
    \/ HandleClientData
    \/ HandleWritable
    \/ HandleExceptional

Spec == Init /\ [][Next]_vars

\* The server's thread keeps running: a step it can take is taken.
FairSpec == Spec /\ WF_vars(ServerStep)

SpecHistory == InitHistory /\ [][Next]_vars

\* ----------------------------------------------------- the client
\* The chat client (src/client.py): the networking thread (_network_loop),
\* and send_message and on_close, which run on the display thread.
\* Whether the server can be reached, what it sends and whether a send
\* succeeds is the environment's choice at each step.

Min(a, b) == IF a <= b THEN a ELSE b

\* A variant of the backoff without the cap.
NextDelay_Uncapped(current_delay) == current_delay * 2

\* min(RECONNECT_MAX_DELAY, current_delay * 2)
NextDelay(current_delay) == Min(RECONNECT_MAX_DELAY, current_delay * 2)

\* The notices of _attempt_connection: "Connection failed, retrying in
\* {current_delay}s" and "Connected to chat server".
RetryNotice(current_delay) == [notice |-> "retry", delay |-> current_delay]
ConnectedNotice == [notice |-> "connected", delay |-> 0]
DisconnectedNotice == [notice |-> "disconnected", delay |-> 0]

\* self.username: what the user typed, stripped and not empty.
username == <<"a", "l">>

\* str(n) of a natural number
DecimalDigits == <<"0", "1", "2", "3", "4", "5", "6", "7", "8", "9">>
RECURSIVE Decimal(_)
Decimal(n) ==
    IF n < 10 THEN <<DecimalDigits[n + 1]>>
    ELSE Decimal(n \div 10) \o <<DecimalDigits[(n % 10) + 1]>>

\* What is handed to the display with wx.CallAfter: _append_system_message
\* (text), _append_own_message(text), _append_other_message(sender, text).
SystemEvent(text) == [kind |-> "system", sender |-> <<>>, text |-> text]
OwnEvent(text) == [kind |-> "own", sender |-> <<>>, text |-> text]
OtherEvent(sender_name, text) ==
    [kind |-> "other", sender |-> sender_name, text |-> text]

\* The texts of the client's own system notices.
ConnectedText == <<"Connected to chat server">>
RetryText(current_delay) ==
    <<"Connection failed, retrying in ">> \o Decimal(current_delay) \o <<"s">>
DisconnectedText == <<"Disconnected from server; reconnecting...">>
NotConnectedText == <<"Not connected to server">>
SendFailedText == <<"Failed to send message: ", "{e}">>

\* The index of the first ":" of a text, 0 if there is none.
RECURSIVE Find(_, _, _)
Find(s, ch, i) ==
    IF i > Len(s) THEN 0
    ELSE IF s[i] = ch THEN i
    ELSE Find(s, ch, i + 1)

\* A variant of the split that always returns two parts (str.partition).
SplitOnce_Partition(rest) ==
    LET i == Find(rest, ":", 1)
    IN  IF i = 0 THEN <<rest, <<>>>>
        ELSE <<SubSeq(rest, 1, i - 1), Drop(rest, i)>>

\* rest.split(":", 1): one part if rest has no colon, else two.
SplitOnce(rest) ==
    LET i == Find(rest, ":", 1)
    IN  IF i = 0 THEN <<rest>>
        ELSE <<SubSeq(rest, 1, i - 1), Drop(rest, i)>>

\* _handle_incoming_message: the events handed to the display for one
\* received text.  Unpacking one part into two names raises ValueError.
HandleIncomingMessage(raw) ==
    LET message_text == Strip(raw)
    IN  IF StartsWith(message_text, SYS_PREFIX)
        THEN <<SystemEvent(Strip(Drop(message_text, Len(SYS_PREFIX))))>>
        ELSE IF StartsWith(message_text, FROM_PREFIX)
        THEN LET rest == Drop(message_text, Len(FROM_PREFIX))
                 parts == SplitOnce(rest)
             IN  IF Len(parts) # 2
                 THEN <<SystemEvent(message_text)>>
                 ELSE LET sender_name == Strip(parts[1])
                          message_content == Strip(parts[2])
                      IN  IF sender_name = username
                          THEN <<OwnEvent(message_content)>>
                          ELSE <<OtherEvent(sender_name, message_content)>>
        ELSE <<SystemEvent(message_text)>>

\* What one recv of the client can return (what the server sends).
Payloads ==
    { FROM_PREFIX \o <<"a", "l">>,
      <<" ">> \o FROM_PREFIX \o <<"b", "o", " ">>,
      FROM_PREFIX \o <<"a", "l", ":", "h", "i">>,
      FROM_PREFIX \o <<" ", "b", "o", " ", ":", " ", "a", ":", "b", " ">>,
      SYS_PREFIX \o <<" ", "b", "o", " ", "l", "e", "f", "t">>,
      <<" ", "F", "R", "O", "M">> }

\* What the user can have typed when the send button is pressed.
InputTexts == { <<"h", "i">>, <<" ", "h", "i", " ">>, <<" ">> }

\* A variant of the loop that attempts to connect only once.
ClientLoopTop_NoRetry ==
    /\ cpc = "loop"
    /\ client_stop_event \/ client_socket # "None" \/ attempts < MaxAttempts
    /\ cpc' = IF client_stop_event THEN "exited"
              ELSE IF client_socket = "None" /\ attempts = 0 THEN "attempt"
              ELSE "receive"
    /\ display' = <<>>
    /\ outbox' = <<>>
    /\ UNCHANGED <<client_socket, client_stop_event, reconnect_delay,
                   sleep_seconds, nap, attempts, notices, handshake,
                   ui, message_bytes>>
    /\ UNCHANGED svars

\* while not self.stop_event.is_set(): if not self.client_socket: ...
\* (a socket object is true, also a closed one)
ClientLoopTop ==
    /\ cpc = "loop"
    /\ client_stop_event \/ client_socket # "None" \/ attempts < MaxAttempts
    /\ cpc' = IF client_stop_event THEN "exited"
              ELSE IF client_socket = "None" THEN "attempt"
              ELSE "receive"
    /\ display' = <<>>
    /\ outbox' = <<>>
    /\ UNCHANGED <<client_socket, client_stop_event, reconnect_delay,
                   sleep_seconds, nap, attempts, notices, handshake,
                   ui, message_bytes>>
    /\ UNCHANGED svars

\* _attempt_connection: the socket is created and assigned, then connect
\* is called.
CreateSocket ==
    /\ cpc = "attempt"
    /\ client_socket' = "created"
    /\ attempts' = attempts + 1
    /\ cpc' = "connecting"
    /\ display' = <<>>
    /\ outbox' = <<>>
    /\ UNCHANGED <<client_stop_event, reconnect_delay, sleep_seconds, nap,
                   notices, handshake, ui, message_bytes>>
    /\ UNCHANGED svars

\* connect returns: the connection is established and the socket made
\* non-blocking.
ConnectSucceeds ==
    /\ cpc = "connecting"
    /\ client_socket = "created"
    /\ client_socket' = "connected"
    /\ cpc' = "handshake"
    /\ display' = <<>>
    /\ outbox' = <<>>
    /\ UNCHANGED <<client_stop_event, reconnect_delay, sleep_seconds, nap,
                   attempts, notices, handshake, ui, message_bytes>>
    /\ UNCHANGED svars

\* _send_username_handshake and the rest of _attempt_connection: the user
\* name is sent (sent is FALSE if that send raises, as it does on a socket
\* on_close closed meanwhile: the error is printed and nothing else), the
\* success is announced and the delay is reset.
SendUsernameHandshake(sent) ==
    /\ cpc = "handshake"
    /\ sent => client_socket = "connected"
    /\ handshake' = IF sent THEN "sent" ELSE "failed"
    /\ outbox' = IF sent THEN NAME_PREFIX \o username ELSE <<>>
    /\ notices' = Append(notices, ConnectedNotice)
    /\ display' = <<SystemEvent(ConnectedText)>>
    /\ reconnect_delay' = RECONNECT_BASE_DELAY
    /\ cpc' = "loop"
    /\ UNCHANGED <<client_socket, client_stop_event, sleep_seconds, nap,
                   attempts, ui, message_bytes>>
    /\ UNCHANGED svars

\* connect raises (also on a socket on_close closed meanwhile): the retry
\* is announced with the current delay, the socket is closed and dropped
\* and the thread sleeps for the current delay.  A send of the display
\* thread that waits on this socket will raise.
ConnectFails ==
    /\ cpc = "connecting"
    /\ notices' = Append(notices, RetryNotice(reconnect_delay))
    /\ display' = <<SystemEvent(RetryText(reconnect_delay))>>
    /\ outbox' = <<>>
    /\ client_socket' = "None"
    /\ handshake' = "none"
    /\ sleep_seconds' = reconnect_delay
    /\ nap' = "check"
    /\ cpc' = "sleeping"
    /\ ui' = IF ui = "sending" THEN "failing" ELSE ui
    /\ UNCHANGED <<client_stop_event, reconnect_delay, attempts,
                   message_bytes>>
    /\ UNCHANGED svars

\* A variant of the sleep's loop condition that does not look at
\* stop_event.
SleepContinues_Uninterruptible(over, stop) == ~over

\* _sleep_interruptible: time.time() < end_time and not
\* self.stop_event.is_set()
SleepContinues(over, stop) == ~over /\ ~stop

\* _sleep_interruptible: the loop condition holds and
\* time.sleep(SLEEP_INTERVAL) is called.
SleepSlice ==
    /\ cpc = "sleeping"
    /\ nap \in {"check", "over"}
    /\ SleepContinues(nap = "over", client_stop_event)
    /\ nap' = "slice"
    /\ display' = <<>>
    /\ outbox' = <<>>
    /\ UNCHANGED <<client_socket, client_stop_event, cpc, reconnect_delay,
                   sleep_seconds, attempts, notices, handshake,
                   ui, message_bytes>>
    /\ UNCHANGED svars

\* time.sleep(SLEEP_INTERVAL) returns; end_time is reached by now (over)
\* or not.
SliceEnds(over) ==
    /\ cpc = "sleeping"
    /\ nap = "slice"
    /\ nap' = IF over THEN "over" ELSE "check"
    /\ display' = <<>>
    /\ outbox' = <<>>
    /\ UNCHANGED <<client_socket, client_stop_event, cpc, reconnect_delay,
                   sleep_seconds, attempts, notices, handshake,
                   ui, message_bytes>>
    /\ UNCHANGED svars

\* _sleep_interruptible returns, the time over or stop_event set;
\* _attempt_connection returns the next delay.
SleepReturns ==
    /\ cpc = "sleeping"
    /\ nap \in {"check", "over"}
    /\ ~SleepContinues(nap = "over", client_stop_event)
    /\ reconnect_delay' = NextDelay(reconnect_delay)
    /\ sleep_seconds' = 0
    /\ nap' = "none"
    /\ cpc' = "loop"
    /\ display' = <<>>
    /\ outbox' = <<>>
    /\ UNCHANGED <<client_socket, client_stop_event, attempts, notices,
                   handshake, ui, message_bytes>>
    /\ UNCHANGED svars

\* A variant of _receive_messages that announces the loss and keeps the
\* socket.
ReceiveMessages_KeepsHandle(readable_sockets, received_data) ==
    /\ cpc = "receive"
    /\ IF readable_sockets /\ client_socket = "connected"
       THEN IF received_data # <<>>
            THEN /\ display' = HandleIncomingMessage(received_data)
                 /\ UNCHANGED <<client_socket, notices, handshake>>
            ELSE /\ notices' = Append(notices, DisconnectedNotice)
                 /\ display' = <<SystemEvent(DisconnectedText)>>
                 /\ UNCHANGED <<client_socket, handshake>>
       ELSE /\ display' = <<>>
            /\ UNCHANGED <<client_socket, notices, handshake>>
    /\ outbox' = <<>>
    /\ cpc' = "loop"
    /\ UNCHANGED <<client_stop_event, reconnect_delay, sleep_seconds, nap,
                   attempts, ui, message_bytes>>
    /\ UNCHANGED svars

\* _receive_messages and the pause after it.  select returns the socket
\* as readable or not (nothing arrived within the second, or select raised
\* on a socket on_close closed); received_data is what recv returned,
\* b"" also when recv raised.
ReceiveMessages(readable_sockets, received_data) ==
    /\ cpc = "receive"
    /\ IF readable_sockets /\ client_socket = "connected"
       THEN IF received_data # <<>>
            THEN /\ display' = HandleIncomingMessage(received_data)
                 /\ UNCHANGED <<client_socket, notices, handshake>>
            ELSE /\ client_socket' = "None"
                 /\ handshake' = "none"
                 /\ notices' = Append(notices, DisconnectedNotice)
                 /\ display' = <<SystemEvent(DisconnectedText)>>
       ELSE /\ display' = <<>>
            /\ UNCHANGED <<client_socket, notices, handshake>>
    /\ outbox' = <<>>
    /\ cpc' = "loop"
    /\ UNCHANGED <<client_stop_event, reconnect_delay, sleep_seconds, nap,
                   attempts, ui, message_bytes>>
    /\ UNCHANGED svars

\* An exception reaches _network_loop: it is printed and the loop goes on
\* after a pause.
NetworkLoopError ==
    /\ cpc = "receive"
    /\ cpc' = "loop"
    /\ display' = <<>>
    /\ outbox' = <<>>
    /\ UNCHANGED <<client_socket, client_stop_event, reconnect_delay,
                   sleep_seconds, nap, attempts, notices, handshake,
                   ui, message_bytes>>
    /\ UNCHANGED svars

\* A variant of the send error handler that gives the connection up.
AfterSendFailure_Drops(socket) == "None"

\* send_message, except Exception: the notice is shown and nothing else
\* is done: self.client_socket stays as it is.
AfterSendFailure(socket) == socket

\* send_message, on the display thread, with the text of the input field.
\* Nothing is done for an empty text.  Without a socket the user is told;
\* on a connected (non-blocking) socket send returns or raises at once
\* (sent); on a socket whose connect is in progress send waits.
SendMessage(input_text, sent) ==
    /\ ui = "idle"
    /\ ~client_stop_event
    /\ LET message_text == Strip(input_text)
       IN  IF message_text = <<>>
           THEN /\ display' = <<>>
                /\ outbox' = <<>>
                /\ UNCHANGED <<client_socket, ui, message_bytes>>
           ELSE IF client_socket = "None"
           THEN /\ display' = <<SystemEvent(NotConnectedText)>>
                /\ outbox' = <<>>
                /\ UNCHANGED <<client_socket, ui, message_bytes>>
           ELSE IF client_socket = "connected"
           THEN /\ IF sent
                   THEN /\ outbox' = MSG_PREFIX \o message_text
                        /\ display' = <<>>
                        /\ UNCHANGED client_socket
                   ELSE /\ outbox' = <<>>
                        /\ display' = <<SystemEvent(SendFailedText)>>
                        /\ client_socket' = AfterSendFailure(client_socket)
                /\ UNCHANGED <<ui, message_bytes>>
           ELSE /\ ui' = "sending"
                /\ message_bytes' = MSG_PREFIX \o message_text
                /\ display' = <<>>
                /\ outbox' = <<>>
                /\ UNCHANGED client_socket
    /\ UNCHANGED <<client_stop_event, cpc, reconnect_delay, sleep_seconds,
                   nap, attempts, notices, handshake>>
    /\ UNCHANGED svars

\* The send that waited returns: the bytes are written, which takes an
\* established connection, or send raises (the socket was closed, the
\* connection failed or the socket's timeout is over).
SendCompletes(sent) ==
    /\ ui \in {"sending", "failing"}
    /\ sent => (ui = "sending" /\ client_socket = "connected")
    /\ IF sent
       THEN /\ outbox' = message_bytes
            /\ display' = <<>>
            /\ UNCHANGED client_socket
       ELSE /\ outbox' = <<>>
            /\ display' = <<SystemEvent(SendFailedText)>>
            /\ client_socket' =
                 IF ui = "sending" THEN AfterSendFailure(client_socket)
                 ELSE client_socket
    /\ ui' = "idle"
    /\ message_bytes' = <<>>
    /\ UNCHANGED <<client_stop_event, cpc, reconnect_delay, sleep_seconds,
                   nap, attempts, notices, handshake>>
    /\ UNCHANGED svars

\* on_close, on the display thread: the socket object is closed and
\* self.client_socket keeps referring to it.
OnClose ==
    /\ ui = "idle"
    /\ ~client_stop_event
    /\ client_stop_event' = TRUE
    /\ client_socket' = IF client_socket = "None" THEN "None" ELSE "closed"
    /\ display' = <<>>
    /\ outbox' = <<>>
    /\ UNCHANGED <<cpc, reconnect_delay, sleep_seconds, nap, attempts,
                   notices, handshake, ui, message_bytes>>
    /\ UNCHANGED svars

\* The steps of the networking thread.
NetworkStep ==
    \/ ClientLoopTop
    \/ CreateSocket
    \/ ConnectSucceeds
    \/ \E sent \in BOOLEAN : SendUsernameHandshake(sent)
    \/ ConnectFails
    \/ SleepSlice
    \/ \E over \in BOOLEAN : SliceEnds(over)
    \/ SleepReturns
    \/ \E readable_sockets \in BOOLEAN, received_data \in Payloads \cup {<<>>} :
         ReceiveMessages(readable_sockets, received_data)
    \/ NetworkLoopError

ClientNext ==
    \/ ClientLoopTop
    \/ CreateSocket
    \/ ConnectSucceeds
    \/ \E sent \in BOOLEAN : SendUsernameHandshake(sent)
    \/ ConnectFails
    \/ SleepSlice
    \/ \E over \in BOOLEAN : SliceEnds(over)
    \/ SleepReturns
    \/ \E readable_sockets \in BOOLEAN, received_data \in Payloads \cup {<<>>} :
         ReceiveMessages(readable_sockets, received_data)
    \/ NetworkLoopError
    \/ \E input_text \in InputTexts, sent \in BOOLEAN :
         SendMessage(input_text, sent)
    \/ \E sent \in BOOLEAN : SendCompletes(sent)
    \/ OnClose

ClientSpec == Init /\ [][ClientNext]_vars

\* The networking thread keeps running: connect, select and the sleep
\* slices return within their time, and time passes: a sleep reaches its
\* end_time after finitely many slices.
ClientFairSpec ==
    ClientSpec /\ WF_vars(NetworkStep) /\ SF_vars(SliceEnds(TRUE))

\* ------------------------------------------- server and client
\* The server and the client are two programs that share no state: what
\* one does to the other is in each one's environment.  A behaviour of
\* LoopsSpec is a behaviour of the one or of the other.
ServerIdle == InitServer /\ budget = MaxEvents
ClientIdle == InitClient

LoopsNext ==
    \/ ClientIdle /\ LoopTop
    \/ ClientIdle /\ Select
    \/ ClientIdle /\ SelectWakes
    \/ ClientIdle /\ AcceptNewClient
    \/ ClientIdle /\ HandleClientData
    \/ ClientIdle /\ HandleWritable
    \/ ClientIdle /\ HandleExceptional
    \/ ClientIdle /\ StopServer
    \/ ClientIdle /\ Environment
    \/ ServerIdle /\ NetworkStep
    \/ ServerIdle /\ \E input_text \in InputTexts, sent \in BOOLEAN :
                       SendMessage(input_text, sent)
    \/ ServerIdle /\ \E sent \in BOOLEAN : SendCompletes(sent)
    \/ ServerIdle /\ OnClose

LoopsSpec == Init /\ [][LoopsNext]_vars

\* ------------------------------------------- relay round trip
\* A chat on its way from the server to a client: a connection that has
\* announced a name (the join notice is written) has sent a chat, select
\* has reported it readable and writable, and a client that is connected
\* is about to receive.  The bytes the server writes are the same for
\* every recipient; the client receives them as one chunk.
NameChunks ==
    { NAME_PREFIX \o <<"a", "l">>,
      NAME_PREFIX \o <<" ", "b", "o", " ">>,
      NAME_PREFIX \o <<"a", " ", "l">>,
      NAME_PREFIX \o <<"a", ":", "l">>,
      NAME_PREFIX \o <<" ">> }

ChatChunks ==
    { MSG_PREFIX \o <<"h", "i">>,
      <<" ">> \o MSG_PREFIX \o <<" ", "y", "o", " ">>,
      MSG_PREFIX \o <<"a", ":", "b">>,
      MSG_PREFIX \o <<"h", " ", "i">>,
      MSG_PREFIX \o <<":">>,
      MSG_PREFIX }

InitRoundTrip ==
    /\ input_sockets = <<Listener, 1>>
    /\ output_sockets = <<1>>
    /\ exceptional_sockets = <<>>
    /\ message_queues = DictSet(EmptyDict, 1, <<>>)
    /\ stop_event = FALSE
    /\ pc = "run"
    /\ readable = <<1>>
    /\ writable = <<1>>
    /\ exceptional = <<>>
    /\ sock = [c \in Conns |-> IF c = 1 THEN "open" ELSE "unborn"]
    /\ listener = "open"
    /\ budget = 0
    /\ history = TRUE
    /\ \E name_chunk \in NameChunks, chat_chunk \in ChatChunks :
         LET registered == Username(1, Strip(name_chunk))
         IN  /\ client_names = DictSet(EmptyDict, 1, registered)
             /\ inbox = [c \in Conns |-> IF c = 1 THEN chat_chunk ELSE <<>>]
             /\ recvd = [c \in Conns |-> IF c = 1 THEN <<name_chunk>> ELSE <<>>]
             /\ enqueued = [c \in Conns |->
                              IF c = 1 THEN <<<<1, JoinMessage(registered)>>>>
                              ELSE <<>>]
             /\ wire = <<1, JoinMessage(registered)>>
    /\ client_socket = "connected"
    /\ client_stop_event = FALSE
    /\ cpc = "receive"
    /\ reconnect_delay = RECONNECT_BASE_DELAY
    /\ sleep_seconds = 0
    /\ attempts = 1
    /\ notices = <<ConnectedNotice>>
    /\ nap = "none"
    /\ handshake = "sent"
    /\ ui = "idle"
    /\ message_bytes = <<>>
    /\ display = <<>>
    /\ outbox = <<>>

\* recv of the client returns what the server has written last, once the
\* server is through with its reads and writes.
ClientReceivesWrite ==
    /\ readable = <<>> /\ writable = <<>>
    /\ wire # <<>>
    /\ ReceiveMessages(TRUE, wire[2])

RoundTripNext ==
    \/ HandleClientData
    \/ HandleWritable
    \/ ClientReceivesWrite

RoundTripSpec == InitRoundTrip /\ [][RoundTripNext]_vars

\* ------------------------------------------------------ the claims
\* The server's step that reads the chunk in flight on connection s.
ServerReads(s) ==
    /\ pc = "run"
    /\ readable # <<>> /\ Head(readable) = s
    /\ sock[s] \in {"open", "eof"} /\ inbox[s] # <<>>
    /\ readable' = Tail(readable)

IsChat(chunk) == StartsWith(Strip(chunk), MSG_PREFIX)
IsNameAnnounce(chunk) == StartsWith(Strip(chunk), NAME_PREFIX)

\* The text of a chat chunk and the name of a name announcement, as the
\* protocol defines them: what follows the prefix, without the blanks
\* around it.
ChatText(chunk) == Strip(Drop(Strip(chunk), 4))
AnnouncedName(chunk) == Strip(Drop(Strip(chunk), 5))

Last(l) == l[Len(l)]

\* C1: whenever the server processes a chat message from a named client,
\* the relay FROM:<name>:<text> is appended exactly once to the queue of
\* every record of the registry, the sender's own included, and no record
\* is added or removed.
C1_BroadcastFanOut ==
    [][\A s \in Conns :
         (ServerReads(s) /\ s \in DOMAIN client_names /\ IsChat(inbox[s]))
         => /\ DOMAIN message_queues' = DOMAIN message_queues
            /\ s \in DOMAIN message_queues
            /\ \A r \in DOMAIN message_queues :
                 message_queues'[r] =
                   Append(message_queues[r],
                          <<"F", "R", "O", "M", ":">> \o client_names[s]
                              \o <<":">> \o ChatText(inbox[s]))]_vars

\* A chat was relayed while two records were in the registry, one of them
\* without a name: both queues end with the relay.
C1_Witness ==
    /\ Cardinality(DOMAIN message_queues) = 2
    /\ DOMAIN client_names # DOMAIN message_queues
    /\ \A r \in DOMAIN message_queues :
         /\ message_queues[r] # <<>>
         /\ StartsWith(Last(message_queues[r]), FROM_PREFIX)

\* C3: a chat message read from a connection without a name appends
\* nothing to any queue and registers no name.
C3_UnnamedChatIgnored ==
    [][\A s \in Conns :
         (ServerReads(s) /\ s \notin DOMAIN client_names /\ IsChat(inbox[s]))
         => /\ message_queues' = message_queues
            /\ client_names' = client_names
            /\ enqueued' = enqueued]_vars

\* The server read a chat from a connection that has no name while another
\* client, with a name, is connected.
C3_Witness ==
    \E s \in Conns :
      /\ s \in DOMAIN message_queues /\ s \notin DOMAIN client_names
      /\ recvd[s] # <<>> /\ IsChat(Last(recvd[s]))
      /\ \A i \in 1..Len(recvd[s]) : ~IsNameAnnounce(recvd[s][i])
      /\ \E r \in DOMAIN client_names : r # s
      /\ \A r \in Conns : \A i \in 1..Len(enqueued[r]) : enqueued[r][i][1] # s

\* C4: a record's queue changes only by an append at its end, by the
\* removal of its oldest entry, which is the one written, or with the
\* removal of the record; and every write is of the oldest entry of the
\* connection's queue.
C4_QueueFifo ==
    [][/\ \A s \in DOMAIN message_queues :
            \/ s \notin DOMAIN message_queues'
            \/ message_queues'[s] = message_queues[s]
            \/ /\ Len(message_queues'[s]) = Len(message_queues[s]) + 1
               /\ SubSeq(message_queues'[s], 1, Len(message_queues[s]))
                     = message_queues[s]
            \/ /\ message_queues[s] # <<>>
               /\ message_queues'[s] = Tail(message_queues[s])
               /\ wire' = <<s, Head(message_queues[s])>>
       /\ wire' # wire =>
            \E s \in DOMAIN message_queues :
               /\ message_queues[s] # <<>>
               /\ wire' = <<s, Head(message_queues[s])>>]_vars

\* The oldest of several entries was written, and a different one is next.
C4_Witness ==
    /\ wire # <<>>
    /\ wire[1] \in DOMAIN message_queues
    /\ Len(message_queues[wire[1]]) >= 2
    /\ message_queues[wire[1]][1] # wire[2]
    /\ message_queues[wire[1]][2] # message_queues[wire[1]][1]

IsSuffix(a, b) ==
    Len(a) <= Len(b) /\ SubSeq(b, Len(b) - Len(a) + 1, Len(b)) = a

\* The bytes of a sequence of <<origin, bytes>> entries.
Bytes(l) == [i \in 1..Len(l) |-> l[i][2]]

\* The server read from c one name announcement and then chats only.
NameThenChats(c) ==
    /\ recvd[c] # <<>>
    /\ IsNameAnnounce(recvd[c][1])
    /\ \A i \in 2..Len(recvd[c]) : IsChat(recvd[c][i])

\* The relays the chats read from c call for, in the order they were read,
\* under the name c announced (the peer's address for an empty name).
ExpectedRelays(c) ==
    LET name == IF AnnouncedName(recvd[c][1]) = <<>> THEN PeerName(c)
                ELSE AnnouncedName(recvd[c][1])
    IN  [i \in 1..(Len(recvd[c]) - 1) |->
            <<"F", "R", "O", "M", ":">> \o name \o <<":">>
                \o ChatText(recvd[c][i + 1])]

\* The relays enqueued for record r on behalf of c, in enqueue order.
RelaysFrom(r, c) ==
    Bytes(SelectSeq(enqueued[r],
                    LAMBDA e : e[1] = c /\ StartsWith(e[2], FROM_PREFIX)))

\* C2: for a client c from which the server read a name announcement and
\* then chats, the relays enqueued for any record on c's behalf are the
\* relays of c's chats in c's send order, none duplicated, dropped or
\* reordered: all of them for a record that was in the registry all along
\* (c's own, and those of the clients accepted before c that are still
\* there), the last ones for a record that was added in between, and
\* consecutive ones for a record that was removed.
C2_OneRelayPerChatInOrder ==
    \A c \in Conns :
      NameThenChats(c) =>
        \A r \in Conns :
          /\ \E m \in 1..(Len(ExpectedRelays(c)) + 1) :
               \E n \in 0..Len(ExpectedRelays(c)) :
                 RelaysFrom(r, c) = SubSeq(ExpectedRelays(c), m, n)
          /\ r \in DOMAIN message_queues
               => IsSuffix(RelaysFrom(r, c), ExpectedRelays(c))
          /\ (r = c \/ (r < c /\ r \in DOMAIN message_queues))
               => RelaysFrom(r, c) = ExpectedRelays(c)

\* Two different chats of a named client were relayed to it and to another
\* client.
C2_Witness ==
    \E c, r \in DOMAIN message_queues :
      /\ r # c
      /\ NameThenChats(c)
      /\ Len(recvd[c]) = 3
      /\ ChatText(recvd[c][2]) # ChatText(recvd[c][3])
      /\ RelaysFrom(r, c) = ExpectedRelays(c)
      /\ RelaysFrom(c, c) = ExpectedRelays(c)

\* C5: when the server has read NAME:al and then MSG:hi from client a, the
\* join notice SYS:al joined and after it the relay FROM:al:hi were
\* enqueued for a's own record and for every record in the registry at
\* both reads; no record was given the relay before the join notice; and
\* what a record's queue holds is the unwritten end of what was enqueued
\* for it, so the join notice is written first.
C5_JoinThenChat ==
    \A a \in Conns :
      (/\ Len(recvd[a]) >= 2
       /\ recvd[a][1] = <<"N", "A", "M", "E", ":", "a", "l">>
       /\ recvd[a][2] = <<"M", "S", "G", ":", "h", "i">>)
      => LET join ==
               <<a, <<"S", "Y", "S", ":", "a", "l", " ",
                      "j", "o", "i", "n", "e", "d">>>>
             relay == <<a, <<"F", "R", "O", "M", ":", "a", "l", ":", "h", "i">>>>
             FromA(r) == SelectSeq(enqueued[r], LAMBDA e : e[1] = a)
         IN  /\ \A r \in Conns :
                  (r = a \/ (r < a /\ r \in DOMAIN message_queues))
                  => /\ Len(FromA(r)) >= 2
                     /\ FromA(r)[1] = join
                     /\ FromA(r)[2] = relay
             /\ \A r \in Conns : \A i, j \in 1..Len(enqueued[r]) :
                  (enqueued[r][i] = relay /\ enqueued[r][j] = join) => j < i
             /\ \A r \in DOMAIN message_queues :
                  IsSuffix(message_queues[r], Bytes(enqueued[r]))

\* Client 2 joined as al and said hi while client 1 was connected: both
\* were given the join notice and the relay, the join notice was written
\* and the relay is next.
C5_Witness ==
    /\ DOMAIN message_queues = {1, 2}
    /\ Len(recvd[2]) = 2
    /\ recvd[2][1] = NAME_PREFIX \o <<"a", "l">>
    /\ recvd[2][2] = MSG_PREFIX \o <<"h", "i">>
    /\ Len(enqueued[1]) = 2 /\ Len(enqueued[2]) = 2
    /\ wire # <<>> /\ wire[2] = Bytes(enqueued[1])[1]
    /\ message_queues[1] = <<Bytes(enqueued[1])[2]>>
    /\ message_queues[2] = <<Bytes(enqueued[2])[2]>>

\* The server's step that runs disconnection handling for s: after a read
\* that returned nothing or raised, or in the exceptional phase.
DisconnectionHandled(s) ==
    /\ pc = "run"
    /\ \/ /\ readable # <<>> /\ Head(readable) = s
          /\ RecvResult(s) # "data"
          /\ readable' # readable
       \/ /\ readable = <<>> /\ writable = <<>>
          /\ exceptional # <<>> /\ Head(exceptional) = s
          /\ exceptional' # exceptional

\* The server's step that writes to s, the write failing.
WriteFails(s) ==
    /\ pc = "run"
    /\ readable = <<>> /\ writable # <<>> /\ Head(writable) = s
    /\ s \in DOMAIN message_queues /\ message_queues[s] # <<>>
    /\ SendRaises(s)
    /\ writable' # writable

\* C6: when a read on a client a named al returns empty (recv returns b"")
\* while another named client is connected, the server removes a's queue and name, takes a out of the three select
\* lists, closes a's connection and appends exactly one leave notice
\* SYS:<name> left to the queue of every other record; a record once
\* removed stays out of the registry, so later broadcasts go to the others
\* only.
C6_LeaveOnEmptyRead ==
    [][\A a \in Conns :
         /\ (/\ pc = "run"
             /\ readable # <<>> /\ Head(readable) = a
             /\ RecvResult(a) = "empty"
             /\ readable' # readable
             /\ a \in DOMAIN client_names
             /\ client_names[a] = <<"a", "l">>
             /\ \E b \in DOMAIN client_names : b # a)
            => /\ a \notin DOMAIN message_queues'
               /\ a \notin DOMAIN client_names'
               /\ ~InList(input_sockets', a)
               /\ ~InList(output_sockets', a)
               /\ ~InList(exceptional_sockets', a)
               /\ sock'[a] = "closed"
               /\ DOMAIN message_queues' = DOMAIN message_queues \ {a}
               /\ \A b \in DOMAIN message_queues \ {a} :
                    message_queues'[b] =
                      Append(message_queues[b],
                             <<"S", "Y", "S", ":">> \o client_names[a]
                                 \o <<" ", "l", "e", "f", "t">>)
         /\ (sock[a] = "closed" /\ a \notin DOMAIN message_queues)
            => a \notin DOMAIN message_queues']_vars

Skipped(s) ==
    /\ pc = "run"
    /\ \/ InList(readable, s) /\ ~InList(readable', s) /\ Head(readable) # s
       \/ /\ InList(writable, s) /\ ~InList(writable', s)
          /\ (readable # <<>> \/ Head(writable) # s)

\* select is called with a closed socket in one of its lists, and raises.
SelectRaises ==
    /\ pc = "select"
    /\ \E s \in Conns :
         /\ sock[s] = "closed"
         /\ \/ InList(input_sockets, s)
            \/ InList(output_sockets, s)
            \/ InList(exceptional_sockets, s)

\* C8: a failed write to one client leaves the queues of the others as
\* they are, and once a write has failed the loop still serves the others
\* in every iteration: select does not raise, and no other connected
\* client that select reported is dropped from the iteration unread or
\* unwritten.
C8_SendFailureIsolation ==
    [][/\ \A x \in Conns :
            WriteFails(x) =>
              \A r \in DOMAIN message_queues \ {x} :
                 /\ r \in DOMAIN message_queues'
                 /\ message_queues'[r] = message_queues[r]
       /\ exceptional_sockets # <<>> =>
            /\ ~SelectRaises
            /\ \A r \in Conns :
                 (sock[r] \in {"open", "eof"}
                    /\ ~InList(exceptional_sockets, r))
                 => ~Skipped(r)]_vars

\* C9: once a write to x has failed (x is in exceptional_sockets), x's
\* record is eventually removed from the registry and its connection
\* closed, unless the server is stopped.
C9_WriteFailureLeadsToRemoval ==
    \A x \in Conns :
      [](InList(exceptional_sockets, x)
           => <>(\/ stop_event
                 \/ (x \notin DOMAIN message_queues /\ sock[x] = "closed")))

\* C10: every retry notice announces 1 when it is the first notice or
\* follows a successful connect, and otherwise the double of the delay
\* announced before, capped at 16 (1, 2, 4, 8, 16, 16, ...); the
\* reconnection sleep is called with the delay announced; and the delay is
\* at least 1 and at most 16 in every state.
C10_Backoff ==
    /\ reconnect_delay >= 1 /\ reconnect_delay <= 16
    /\ \A i \in 1..Len(notices) :
         notices[i].notice = "retry" =>
           notices[i].delay =
             IF i = 1 \/ notices[i - 1].notice # "retry" THEN 1
             ELSE IF 2 * notices[i - 1].delay > 16 THEN 16
             ELSE 2 * notices[i - 1].delay
    /\ cpc = "sleeping" =>
         /\ notices[Len(notices)].notice = "retry"
         /\ sleep_seconds = notices[Len(notices)].delay

\* After a successful connect that was lost, six attempts failed: the
\* client sleeps for the delay of the sixth.
C10_Witness ==
    /\ Len(notices) = 8
    /\ notices[1] = ConnectedNotice
    /\ [i \in 1..6 |-> notices[i + 2].delay] = <<1, 2, 4, 8, 16, 16>>
    /\ cpc = "sleeping"
    /\ sleep_seconds = 16

\* C13: once stop_server was called the listening socket is closed and
\* the relay loop has exited or can take its next step towards the exit: it
\* is never left waiting.
C13_StopEndsLoop ==
    stop_event => (listener = "closed" /\ (pc = "exited" \/ ENABLED ServerStep))

\* C17: a name, once set, stays as it is while the connection lives and is
\* never replaced by another; a chunk that is no chat, read from a
\* connection that has a name, changes no name and no queue.
C17_NameImmutable ==
    [][/\ \A s \in DOMAIN client_names :
            /\ s \in DOMAIN client_names'
                 => client_names'[s] = client_names[s]
            /\ sock'[s] \in {"open", "eof"} => s \in DOMAIN client_names'
       /\ \A s \in Conns :
            (ServerReads(s) /\ s \in DOMAIN client_names /\ ~IsChat(inbox[s]))
            => /\ client_names' = client_names
               /\ message_queues' = message_queues
               /\ enqueued' = enqueued]_vars

\* A connection announced the name al and then another name: it is still
\* al, and one join notice was enqueued on its behalf.
C17_Witness ==
    \E s \in DOMAIN client_names :
      /\ Len(recvd[s]) >= 2
      /\ recvd[s][1] = NAME_PREFIX \o <<"a", "l">>
      /\ recvd[s][2] = NAME_PREFIX \o <<" ">>
      /\ client_names[s] = <<"a", "l">>
      /\ Len(enqueued[s]) = 1

\* C18: the queue of a connected record without a name holds no relayed
\* chat.
C18_UnnamedGetsNoRelay ==
    \A r \in DOMAIN message_queues :
      (r \notin DOMAIN client_names /\ sock[r] = "open")
      => \A i \in 1..Len(message_queues[r]) :
           ~StartsWith(message_queues[r][i], FROM_PREFIX)

\* A relay without the colon that ends the sender's name.
Malformed(payload) ==
    /\ StartsWith(Strip(payload), FROM_PREFIX)
    /\ Find(Drop(Strip(payload), Len(FROM_PREFIX)), ":", 1) = 0

\* The client's connection state: the handle, what became of the
\* handshake, the reconnection delay and sleep, the stop signal and the
\* notices about connecting.
ConnectionState ==
    <<client_socket, handshake, reconnect_delay, sleep_seconds,
      client_stop_event, notices>>

\* C11: a step of the connected client that receives a relay without a
\* second colon hands exactly one event to the display, a system notice
\* with the text as received (without the blanks around it); the networking
\* thread goes on with its loop and the connection state is unchanged.
C11_MalformedRelayIsNotice ==
    [][\A payload \in Payloads :
         (Malformed(payload) /\ client_socket = "connected"
            /\ ReceiveMessages(TRUE, payload))
         => /\ display' = <<SystemEvent(Strip(payload))>>
            /\ Strip(payload) = payload => display'[1].text = payload
            /\ cpc' = "loop"
            /\ UNCHANGED ConnectionState]_vars

\* FROM:al was received and shown as a system notice; the client is still
\* connected.
C11_Witness ==
    /\ display = <<SystemEvent(FROM_PREFIX \o <<"a", "l">>)>>
    /\ client_socket = "connected"
    /\ cpc = "loop"

\* C15: once on_close has run and the networking loop has exited, the
\* client refers to no socket or to a closed one.
C15_NoOpenHandleAfterShutdown ==
    (client_stop_event /\ cpc = "exited")
    => client_socket \in {"None", "closed"}

\* C16: the step of the connecting client in which the send of the user
\* name fails ends as a failed connect: the socket is dropped, the retry
\* with the current delay is announced and slept, and the client is not
\* connected.
C16_HandshakeFailureIsFailedConnect ==
    [][(cpc = "handshake" /\ cpc' # "handshake" /\ handshake' = "failed")
       => /\ client_socket' = "None"
          /\ display' = <<SystemEvent(RetryText(reconnect_delay))>>
          /\ cpc' = "sleeping"
          /\ sleep_seconds' = reconnect_delay]_vars

\* C19: a send_message with a text that is not empty, called while the
\* client is not connected, writes nothing, neither at once nor when a
\* send that waited returns; it changes nothing of the connection state
\* and ends with one system notice.
C19_SendWhileNotConnected ==
    [][/\ \A input_text \in InputTexts, sent \in BOOLEAN :
            (Strip(input_text) # <<>> /\ client_socket # "connected"
               /\ SendMessage(input_text, sent))
            => /\ outbox' = <<>>
               /\ UNCHANGED ConnectionState
               /\ ui' = "idle" =>
                    (Len(display') = 1 /\ display'[1].kind = "system")
       /\ (ui # "idle" /\ ui' = "idle")
            => /\ outbox' = <<>>
               /\ UNCHANGED ConnectionState
               /\ Len(display') = 1 /\ display'[1].kind = "system"]_vars

\* C20: a send_message whose send raises on the connection the client
\* holds shows the error notice, writes nothing and changes nothing of the
\* connection state; a connection held is given up only by the networking
\* thread in its receive step, or closed by on_close.
C20_SendFailureKeepsState ==
    [][/\ \A input_text \in InputTexts :
            (Strip(input_text) # <<>> /\ client_socket = "connected"
               /\ SendMessage(input_text, FALSE))
            => /\ display' = <<SystemEvent(SendFailedText)>>
               /\ outbox' = <<>>
               /\ cpc' = cpc
               /\ UNCHANGED ConnectionState
       /\ (client_socket = "connected" /\ client_socket' # "connected")
            => \/ cpc = "receive" /\ cpc' = "loop" /\ client_socket' = "None"
               \/ client_stop_event' /\ client_socket' = "closed"]_vars

\* A send on the connection held has failed: the notice is shown and the
\* client is connected as before, the networking thread about to receive.
C20_Witness ==
    /\ display = <<SystemEvent(SendFailedText)>>
    /\ client_socket = "connected"
    /\ handshake = "sent"
    /\ cpc = "receive"
    /\ ui = "idle"

\* C14: once stop_event is set the networking loop exits, whatever it was
\* doing; from then on no slice of a sleep is started, the loop's next
\* check of the signal ends it without a connection attempt, and the
\* thread that has exited does nothing more.
C14_ShutdownEndsNetworkLoop ==
    /\ client_stop_event ~> (cpc = "exited")
    /\ [][client_stop_event
          => /\ nap' = "slice" => nap = "slice"
             /\ cpc = "loop" => cpc' \in {"loop", "exited"}
             /\ cpc = "exited" => (cpc' = "exited" /\ attempts' = attempts)]_vars

\* on_close ran while the client was in a slice of its longest
\* reconnection sleep.
C14_Witness ==
    /\ client_stop_event
    /\ cpc = "sleeping"
    /\ sleep_seconds = RECONNECT_MAX_DELAY
    /\ nap = "slice"

\* C12: a loop that has exited was told to stop: the server's loop has
\* exited only with the server's stop_event set, the client's networking
\* loop only with the client's.
C12_OnlyShutdownEndsLoops ==
    /\ pc = "exited" => stop_event
    /\ cpc = "exited" => client_stop_event

\* The server's loop went on after a write had failed, and has exited
\* after stop_server.
C12_Witness ==
    /\ pc = "exited"
    /\ stop_event
    /\ exceptional_sockets # <<>>

\* A chunk the server accepts from connection s as things are: a name
\* announcement when s has no name, a chat when it has one.
Accepted(s, chunk) ==
    IF s \in DOMAIN client_names THEN IsChat(chunk) ELSE IsNameAnnounce(chunk)

\* C28: a step in which the server reads a chunk it does not accept from
\* the connection changes no name and no queue, enqueues nothing, and leaves
\* the connection open and on the server's lists.
C28_ProtocolErrorsDropped ==
    [][\A s \in Conns :
         (ServerReads(s) /\ ~Accepted(s, inbox[s]))
         => /\ client_names' = client_names
            /\ message_queues' = message_queues
            /\ enqueued' = enqueued
            /\ sock'[s] = sock[s]
            /\ input_sockets' = input_sockets
            /\ output_sockets' = output_sockets
            /\ exceptional_sockets' = exceptional_sockets]_vars

\* A connection with the name al sent the text hi without a prefix: it was
\* read, nothing was enqueued for it but the join notice, and the
\* connection is open.
C28_Witness ==
    \E s \in DOMAIN client_names :
      /\ recvd[s] = <<NAME_PREFIX \o <<"a", "l">>, <<"h", "i">>>>
      /\ Len(enqueued[s]) = 1
      /\ sock[s] = "open"
      /\ s \in DOMAIN message_queues

\* The server holds connection c: it was accepted and the server has not
\* closed it.
Held(c) == sock[c] \notin {"unborn", "syn", "closed"}

NoDuplicates(l) == \A i, j \in 1..Len(l) : l[i] = l[j] => i = j

\* C26: when select is called, every socket on the three lists is the
\* listening socket or a connection the server holds, has a queue for and
\* has not seen fail, and no list names a socket twice.
C26_SelectSetHygiene ==
    pc = "select" =>
      \A l \in {input_sockets, output_sockets, exceptional_sockets} :
        /\ NoDuplicates(l)
        /\ \A i \in 1..Len(l) :
             l[i] # Listener =>
               /\ Held(l[i]) /\ sock[l[i]] # "dead"
               /\ l[i] \in DOMAIN message_queues

\* A queue with something to write, for a connection that is open.
Pending(c) ==
    /\ c \in DOMAIN message_queues
    /\ message_queues[c] # <<>>
    /\ sock[c] = "open"

\* C25: while the server is not stopped, what is queued for a connection
\* that stays open is written: a queue with something to write leads to
\* that queue empty, unless the connection ends or the server is stopped.
C25_EventualFlush ==
    \A c \in Conns : Pending(c) ~> (~Pending(c) \/ stop_event)

\* C21: the step of the connected client in which recv returns nothing
\* (the peer closed, or recv raised) drops the connection, leaves the client
\* without one and announces the loss once; and the loss is announced in
\* such steps only.
C21_ReadFailureDisconnects ==
    [][/\ (client_socket = "connected" /\ ReceiveMessages(TRUE, <<>>))
            => /\ client_socket' = "None"
               /\ display' = <<SystemEvent(DisconnectedText)>>
               /\ notices' = Append(notices, DisconnectedNotice)
               /\ cpc' = "loop"
       /\ (notices' # notices /\ Last(notices') = DisconnectedNotice)
            => (client_socket = "connected" /\ client_socket' = "None")
       /\ (display' # display /\ display' = <<SystemEvent(DisconnectedText)>>)
            => (client_socket = "connected" /\ client_socket' = "None")]_vars

\* The connection was lost after the name was sent: the client holds none
\* and the loss was announced.
C21_Witness ==
    /\ notices = <<ConnectedNotice, DisconnectedNotice>>
    /\ display = <<SystemEvent(DisconnectedText)>>
    /\ client_socket = "None"
    /\ cpc = "loop"

\* C22: a client without a connection that was not told to stop starts
\* another connection attempt (as long as the attempts counted here are not
\* used up); and every attempt whose connect returns makes the client
\* connected and sends the user name, written unless that send fails.
C22_ReconnectIsContinuous ==
    /\ (client_socket = "None" /\ ~client_stop_event /\ attempts < MaxAttempts)
         ~> (cpc = "connecting" \/ client_stop_event)
    /\ [][/\ (cpc = "connecting" /\ cpc' # "connecting"
                /\ client_socket' # "None")
               => (cpc' = "handshake"
                   /\ client_socket' \in {"connected", "closed"})
          /\ (cpc = "handshake" /\ cpc' # "handshake")
               => /\ cpc' = "loop"
                  /\ handshake' = "sent" => outbox' = NAME_PREFIX \o username
                  /\ handshake' = "failed" => outbox' = <<>>]_vars

\* The client is connected a second time, after a loss and a failed
\* attempt, and has just sent its name on the new connection.
C22_Witness ==
    /\ notices = <<ConnectedNotice, DisconnectedNotice, RetryNotice(1),
                   ConnectedNotice>>
    /\ client_socket = "connected"
    /\ handshake = "sent"
    /\ outbox = NAME_PREFIX \o username

\* C24: what is written to a connection on which the user name has not
\* been sent is the user name: no chat goes before it.
C24_HandshakeFirst ==
    [][(outbox' # <<>> /\ handshake # "sent")
       => outbox' = NAME_PREFIX \o username]_vars

\* C27: a client that receives the relay of a chat shows it with the name
\* the sender has at the server and the text of the chat without the blanks
\* around it: as its own message when that name is the client's, else as
\* the message of that sender.
C27_RelayRoundTrip ==
    [][(cpc = "receive" /\ cpc' = "loop" /\ wire # <<>>
          /\ StartsWith(wire[2], FROM_PREFIX))
       => LET n == client_names[wire[1]]
              t == ChatText(Last(recvd[wire[1]]))
          IN  display' = IF n = username THEN <<OwnEvent(t)>>
                         ELSE <<OtherEvent(n, t)>>]_vars

=============================================================================
